---- MODULE Spec2Model ----
(***************************************************************************)
(* Model of the discussion orchestrator of ai-brainstorm:                  *)
(*   src/src/services/DiscussionManager.ts (class at lines 384-865),       *)
(*   src/src/services/RoleManager.ts, src/src/utils/retry.ts,              *)
(*   src/src/models/BaseAIProvider.ts (class at lines 54-...),             *)
(*   the AIProviderFactory of src/unnamed/part_006 (lines 131-213).        *)
(*                                                                         *)
(* One discussion is followed from startDiscussion to its terminal event.  *)
(* Every `await` of the code is a step boundary; the code between two      *)
(* awaits is one action.                                                   *)
(***************************************************************************)
EXTENDS Integers, Sequences, FiniteSets, TLC

\* ---------------------------------------------------------------- bounds
\* longest participant list a start request carries
MaxParticipants == 3

\* ------------------------------------------------------ program constants
\* getFirstSpeakerResponse: const maxAttempts = 3
OuterMaxAttempts == 3
\* config.retry.maxAttempts (RETRY_MAX_ATTEMPTS, default '5')
RetryMaxAttempts == 5

\* ------------------------------------------------------------ role catalog
\* RoleManager.predefinedRoles: role id -> role name (three of the seven
\* catalog entries; the names stand for the catalog's display names)
predefinedRoles ==
  [first_speaker |-> "InitialSpeaker",
   critic        |-> "CriticalThinker",
   synthesizer   |-> "Synthesizer"]

\* a role id that is not in the catalog
UnknownRoleId == "ghost"

NoRole == "undefined"

\* mutant: an unknown role id falls back to a catalog entry
getRoleById_Default(id) ==
  IF id \in DOMAIN predefinedRoles THEN predefinedRoles[id] ELSE predefinedRoles["critic"]

\* RoleManager.getRoleById
getRoleById(id) ==
  IF id \in DOMAIN predefinedRoles THEN predefinedRoles[id] ELSE NoRole

\* RoleManager.createParticipant (called only after getRoleById succeeded);
\* participant.role is the role NAME; id stands for the fresh uuid and is the
\* participant's position in the conversation's participant list
createParticipant(id, roleId, modelProvider, name) ==
  [id |-> id, name |-> name, role |-> getRoleById(roleId),
   provider |-> modelProvider, isActive |-> TRUE]

\* ------------------------------------------------------ provider registry
\* config.apis: gemini and claude usable, openai present but disabled,
\* grok enabled but without a credential; "mistral" is not configured
configApis ==
  [gemini |-> [enabled |-> TRUE,  apiKey |-> TRUE],
   claude |-> [enabled |-> TRUE,  apiKey |-> TRUE],
   openai |-> [enabled |-> FALSE, apiKey |-> TRUE],
   grok   |-> [enabled |-> TRUE,  apiKey |-> FALSE]]

\* provider names a start request may bind a participant to
ProviderNames == {"gemini", "claude", "grok"}

\* mutant: the memo test is missing, every call constructs and stores
isMemoized_Never(registry, providerName) == FALSE

\* createProvider line 135: this.providers.has(providerName)
isMemoized(registry, providerName) == providerName \in registry

\* a provider instance: the name it was built for and which providers.set
\* call of that name stored it
Instance(providerName, serial) == [name |-> providerName, serial |-> serial]
NoProvider == Instance("", 0)

\* AIProviderFactory.createProvider: TRUE iff the call returns a provider
\* (memoized, or constructible from the configuration); FALSE iff it throws
createProviderOk(registry, providerName) ==
  \/ isMemoized(registry, providerName)
  \/ /\ providerName \in DOMAIN configApis
     /\ configApis[providerName].enabled
     /\ configApis[providerName].apiKey

\* AIProviderFactory.getAvailableProviders
getAvailableProviders ==
  {n \in DOMAIN configApis : configApis[n].enabled /\ configApis[n].apiKey}

\* ------------------------------------------------------------------ state
VARIABLES
  pc,              \* position of the discussion's async chain
  request,         \* topic.participants of the startDiscussion call made
  startResult,     \* what startDiscussion gave its caller: "none", "id", "threw"
  clientMaps,      \* keys of DiscussionManager.activeConversations
  conv,            \* the registered Conversation, or NoConv
  providers,       \* AIProviderFactory.providers (memoized names)
  registryWrites,  \* per provider name, the providers.set calls made so far
  provider,        \* getParticipantResponse: the instance createProvider gave
  events,          \* events emitted by the DiscussionManager, in order
  discussionOrder, \* runDiscussionRound: discussionOrder
  attempt,         \* getFirstSpeakerResponse: attempt
  idx,             \* runDiscussionRound: loop variable i (0 during Stage 1)
  resolveOk,       \* the pending createProvider promise: fulfilled or rejected
  streamFallback,  \* config.aiRequest.enableStreamFallback
  providerCalls,   \* participant ids for which generateResponse was invoked
  dropped,         \* participant ids whose Stage 2 turn ended without a message
  s1Failures,      \* wrapper attempts of the running Stage 1 loop that failed
                   \* with a retryable error (kept while s1Class # "other",
                   \* cleared when the loop returns a response)
  s1Class          \* Stage 1 so far: "clean" (nothing but retryable errors and
                   \* usable text), "timeout" (also response timeouts), "other"

discussionVars == <<pc, request, startResult, clientMaps, conv, providers, registryWrites, provider, events,
          discussionOrder, attempt, idx, resolveOk,
          streamFallback, providerCalls, dropped, s1Failures, s1Class>>

NoConv == [status |-> "none", participants |-> <<>>, messages |-> <<>>, currentRound |-> 0]
ClientId == "c1"

\* config default of DiscussionConfig.enableRealTimeUpdates
EnableRealTimeUpdates == TRUE

Ev(type, n) == [type |-> type, n |-> n]

\* what getParticipantResponse gives its caller: a message whose content is
\* usable text ("text") or text holding the placeholder phrase ("marked"),
\* the error placeholder message of its catch block ("placeholder"), or the
\* exception of createProvider ("exception")
Responses == {"text", "marked", "placeholder", "exception"}

\* the initial user message, and the message getParticipantResponse builds
\* for participant p
UserMessage ==
  [role |-> "user", participantId |-> 0, participantRole |-> "", model |-> "",
   isErrorMessage |-> FALSE]
AssistantMessage(p, response) ==
  [role |-> "assistant", participantId |-> p.id, participantRole |-> p.role,
   model |-> p.provider, isErrorMessage |-> (response = "placeholder")]

\* getFirstSpeakerResponse, lines 585-590: the response is there, is no error
\* message, has content and does not hold the placeholder phrase
isValidFirstResponse(response) == response = "text"

\* mutant: the isErrorMessage test is missing
isAppendable_Any(response) == response \in {"text", "marked", "placeholder"}

\* runDiscussionRound, lines 509 and 539: response && !isErrorMessage
isAppendable(response) == response \in {"text", "marked"}

\* the start requests: topic.participants
Slots == [roleId : DOMAIN predefinedRoles \cup {UnknownRoleId}, provider : ProviderNames]
Requests == UNION {[1..n -> Slots] : n \in 0..MaxParticipants}

\* what one provider network call can produce: usable text, text holding the
\* error-placeholder phrase, empty/whitespace text, an error matching a
\* retryable signature, any other error
Outcomes == {"text", "marked", "empty", "retryable", "fatal"}

\* a provider's behaviour during one generateResponse call: the network calls
\* of the first `fails` attempts end with a retryable error, those of the
\* later attempts with `then`
Scripts == [fails : 0..RetryMaxAttempts, then : Outcomes \ {"retryable"}]
NetOutcome(script, n) == IF n <= script.fails THEN "retryable" ELSE script.then

\* retry.ts shouldRetry, on the error an attempt ended with; the error
\* 'Empty response from <provider>' matches no retryable signature
shouldRetry(err) == err = "retryable"

\* BaseAIProvider.generateResponse, the operation handed to withRetry: the
\* streaming request, on its failure the non-streaming request if the
\* fallback is enabled, then the empty check.  The result is the text kind
\* returned or the error thrown.
operation(streamOutcome, nonStreamOutcome, fallback) ==
  LET parsedResponse ==
        IF streamOutcome \in {"retryable", "fatal"}
        THEN IF fallback THEN nonStreamOutcome ELSE streamOutcome
        ELSE streamOutcome
  IN parsedResponse

\* retry.ts withRetry from attempt n on, for the provider behaviour script
RECURSIVE withRetry(_, _, _)
withRetry(script, fallback, n) ==
  LET r == operation(NetOutcome(script, n), NetOutcome(script, n), fallback) IN
  IF r \in {"text", "marked"}
  THEN [threw |-> FALSE, value |-> r, attempts |-> n]
  ELSE IF n = RetryMaxAttempts \/ ~shouldRetry(r)
       THEN [threw |-> TRUE, value |-> r, attempts |-> n]
       ELSE withRetry(script, fallback, n + 1)

\* BaseAIProvider.generateResponse
generateResponse(script, fallback) == withRetry(script, fallback, 1)

\* DiscussionManager.getDiscussionOrder
getDiscussionOrder(participants) ==
  LET IsGemini(p) == p.provider = "gemini"
      NotGemini(p) == p.provider # "gemini"
      geminis == SelectSeq(participants, IsGemini)
      otherParticipants == SelectSeq(participants, NotGemini)
  IN IF geminis = <<>> THEN participants
     ELSE <<Head(geminis)>> \o otherParticipants

\* ------------------------------------------------- retry wrapper: values
\* longest text a provider answers with, in characters
MaxTextLen == 2
\* largest config.retry.maxAttempts tried
MaxAttempts == 3

\* characters of a provider's answer: a visible one and a blank
Chars == {"a", " "}
Texts == UNION {[1..n -> Chars] : n \in 0..MaxTextLen}

\* String.prototype.trim
RECURSIVE trim(_)
trim(text) ==
  IF text = <<>> THEN text
  ELSE IF Head(text) = " " THEN trim(Tail(text))
  ELSE IF text[Len(text)] = " " THEN trim(SubSeq(text, 1, Len(text) - 1))
  ELSE text

\* mutant: the text is tested without trimming
isBlank_NoTrim(text) == text = <<>>

\* generateResponse line 147: !parsedResponse || parsedResponse.trim().length === 0
isBlank(text) == text = <<>> \/ Len(trim(text)) = 0

\* an error object: error.code, error.response.status (0: no response) and
\* the fragments error.message is made of
Error(code, status, message) == [code |-> code, status |-> status, message |-> message]
NoError == Error("", 0, {})

\* errors a provider network call ends with
NetErrors ==
  { Error("ECONNRESET", 0, {"read", "ECONNRESET"}),
    Error("ETIMEDOUT", 0, {"connect", "timed out"}),
    Error("", 0, {"Network Error"}),
    Error("ERR_BAD_RESPONSE", 503, {"Request failed with status code", "503"}),
    Error("", 429, {"rate limited"}),
    Error("ERR_BAD_REQUEST", 401, {"Request failed with status code", "401"}) }

\* generateResponse line 148: new Error(`Empty response from ${provider}`)
EmptyResponseError(providerName) == Error("", 0, {"Empty response from", providerName})

\* Number.prototype.toString on the HTTP statuses that occur
toString(status) ==
  CASE status = 401 -> "401"
    [] status = 429 -> "429"
    [] status = 503 -> "503"
    [] OTHER -> "0"

\* DEFAULT_RETRY_CONFIG.retryableErrors, and a configured shorter list
DefaultRetryableErrors ==
  {"ECONNABORTED", "ENOTFOUND", "ECONNREFUSED", "ECONNRESET", "ETIMEDOUT",
   "Network Error", "500", "502", "503", "504", "429"}
RetryConfigs ==
  [maxAttempts : 1..MaxAttempts, baseDelay : {500, 2000}, maxDelay : {1000, 2000},
   backoffFactor : {1, 2}, retryableErrors : {DefaultRetryableErrors, {"ECONNRESET"}}]

\* retry.ts shouldRetry on an error object
shouldRetryError(error, config) ==
  \/ error.code # "" /\ error.code \in config.retryableErrors
  \/ error.status # 0 /\ toString(error.status) \in config.retryableErrors
  \/ \E retryableError \in config.retryableErrors : retryableError \in error.message

\* mutant: exponential back-off capped by maxDelay
calculateDelay_Backoff(n, config) ==
  LET raw == config.baseDelay * (config.backoffFactor ^ (n - 1))
  IN IF raw > config.maxDelay THEN config.maxDelay ELSE raw

\* retry.ts calculateDelay
calculateDelay(n, config) == config.baseDelay

\* mutant: the n budget is not looked at
isFinalFailure_NoBudget(n, error, config) == ~shouldRetryError(error, config)

\* mutant: the error is not classified, every failure but the last is retried
isFinalFailure_LastOnly(n, error, config) == n = config.maxAttempts

\* withRetry line 80: attempt === config.maxAttempts || !shouldRetry(error, config)
isFinalFailure(n, error, config) ==
  n = config.maxAttempts \/ ~shouldRetryError(error, config)

\* the provider the wrapper followed step by step belongs to
WrapperProvider == "gemini"

VARIABLES
  wpc,             \* generateResponse: "Off" (not followed), "Idle", "Stream",
                   \* "NonStream", "Delay", "Returned", "Threw"
  retryConfig,     \* BaseAIProvider.retryConfig
  retryAttempt,    \* withRetry: attempt
  lastError,       \* withRetry: lastError
  invocations,     \* calls of the operation handed to withRetry
  failedAttempts,  \* of these, the ones that threw
  requests,        \* network calls made: [stream, nonStream]
  streamError,     \* the error the streaming path of this attempt failed with
  delays,          \* the waits withRetry has made, in order
  wresult          \* what generateResponse returned (text) or threw (error)

wrapperVars == <<wpc, retryConfig, retryAttempt, lastError, invocations,
                 failedAttempts, requests, streamError, delays, wresult>>

\* generateResponse has not been called
WrapperAt(position) ==
  /\ wpc = position
  /\ retryAttempt = 0
  /\ lastError = NoError
  /\ invocations = 0
  /\ failedAttempts = 0
  /\ requests = [stream |-> 0, nonStream |-> 0]
  /\ streamError = NoError
  /\ delays = <<>>
  /\ wresult = [text |-> <<>>, error |-> NoError]

\* ----------------------------------------------------- persistence: values
\* message ids the store sees
MaxMessageIds == 2
MessageIds == 1..MaxMessageIds
ConversationIds == {"k1", "k2"}

VARIABLES
  dbConversations, \* rows of table conversations (primary key id)
  dbMessages,      \* rows of table messages (primary key id)
  foreignKeys,     \* whether the SQLite build enforces foreign keys
  saveLog          \* the latest consecutive saveMessage calls, at most two

dbVars == <<dbConversations, dbMessages, foreignKeys, saveLog>>

\* ------------------------------------------- manager and its API: values
\* API calls (addMessage, updateParticipant, stopDiscussion, getConversation,
\* getAllConversations) made during one run
MaxApiCalls == 2

\* the callers, and a conversation id no startDiscussion call returned
ClientIds == {"c1", "c2"}
UnknownConversationId == "k0"

VARIABLES
  activeConversations, \* DiscussionManager.activeConversations: per client id
                       \* the map conversation id -> Conversation
  chains,              \* per conversation id, the async chain runDiscussion
                       \* started for it: its position and its locals
  factoryProviders,    \* AIProviderFactory.providers (memoized names)
  emitted,             \* per conversation id, the events emitted for it
  lastCall,            \* the latest API call and what it returned
  apiCalls             \* API calls made so far

managerVars == <<activeConversations, chains, factoryProviders, emitted, lastCall, apiCalls>>

\* ------------------------------------------------- abandoned calls: state
VARIABLES
  orphans          \* generateResponse calls that lost the Promise.race against
                   \* the response timer: [id, turn, attempt, arrived], arrived
                   \* once the abandoned call has settled after all

raceVars == <<orphans>>

vars == <<discussionVars, wrapperVars, dbVars, managerVars, raceVars>>

\* new Map()
EmptyMap == [x \in {} |-> x]

\* a chain that was not started
NoChain ==
  [pc |-> "None", clientId |-> "", discussionOrder |-> <<>>, idx |-> 0, attempt |-> 0,
   resolveOk |-> FALSE]

NoCall ==
  [op |-> "none", clientId |-> "", conversationId |-> "", ok |-> FALSE, returned |-> {}]

\* a DiscussionManager after construction, before any call
ManagerIdle ==
  /\ activeConversations = EmptyMap
  /\ chains = [k \in ConversationIds |-> NoChain]
  /\ factoryProviders = {}
  /\ emitted = [k \in ConversationIds |-> <<>>]
  /\ lastCall = NoCall
  /\ apiCalls = 0

\* nothing has been stored
DbEmpty ==
  /\ dbConversations = {}
  /\ dbMessages = {}
  /\ saveLog = <<>>

\* DiscussionManager and AIProviderFactory after construction
DiscussionIdle ==
  /\ pc = "Pending"
  /\ request = <<>>
  /\ startResult = "none"
  /\ clientMaps = {}
  /\ conv = NoConv
  /\ providers = {}
  /\ registryWrites = [n \in ProviderNames |-> 0]
  /\ provider = NoProvider
  /\ events = <<>>
  /\ discussionOrder = <<>>
  /\ attempt = 0
  /\ idx = 0
  /\ resolveOk = FALSE
  /\ streamFallback = TRUE
  /\ providerCalls = {}
  /\ dropped = {}
  /\ s1Failures = 0
  /\ s1Class = "clean"

Init ==
  /\ DiscussionIdle
  /\ retryConfig = [maxAttempts |-> RetryMaxAttempts, baseDelay |-> 2000, maxDelay |-> 2000,
                    backoffFactor |-> 1, retryableErrors |-> DefaultRetryableErrors]
  /\ WrapperAt("Off")
  /\ foreignKeys = TRUE
  /\ DbEmpty
  /\ ManagerIdle
  /\ orphans = {}

\* ---------------------------------------------------------------- helpers
\* getParticipantResponse up to its first await: createProvider has run for
\* participant p (memoizing on success) and its promise is pending
BeginCall(p) ==
  /\ resolveOk' = createProviderOk(providers, p.provider)
  /\ providers' = IF createProviderOk(providers, p.provider)
                  THEN providers \cup {p.provider} ELSE providers
  /\ registryWrites' =
       IF createProviderOk(providers, p.provider) /\ ~isMemoized(providers, p.provider)
       THEN [registryWrites EXCEPT ![p.provider] = @ + 1]
       ELSE registryWrites
  /\ provider' = IF createProviderOk(providers, p.provider)
                 THEN Instance(p.provider, registryWrites'[p.provider])
                 ELSE NoProvider
  /\ pc' = "Resolve"

\* mutant: runDiscussion's catch block rethrows, so the catch handler
\* startDiscussion attached to the chain emits discussionError once more
FailDiscussion_Rethrows(ev) ==
  /\ conv' = [conv EXCEPT !.status = "error"]
  /\ events' = ev \o <<Ev("discussionError", 0), Ev("discussionError", 0)>>
  /\ pc' = "Done"
  /\ UNCHANGED <<providers, registryWrites, provider, resolveOk, attempt, idx>>

\* runDiscussion: runDiscussionRound threw
FailDiscussion(ev) ==
  /\ conv' = [conv EXCEPT !.status = "error"]
  /\ events' = Append(ev, Ev("discussionError", 0))
  /\ pc' = "Done"
  /\ UNCHANGED <<providers, registryWrites, provider, resolveOk, attempt, idx>>

\* runDiscussionRound: the for loop at index i with conversation c and event
\* log ev; past the last participant the round returns and runDiscussion
\* completes the conversation
LoopAt(i, c, ev) ==
  /\ idx' = i
  /\ IF i < Len(discussionOrder)
     THEN /\ conv' = c
          /\ events' = ev
          /\ BeginCall(discussionOrder[i + 1])
     ELSE /\ conv' = [c EXCEPT !.status = "completed"]
          /\ events' = Append(ev, Ev("discussionCompleted", Len(c.messages)))
          /\ pc' = "Done"
          /\ UNCHANGED <<providers, registryWrites, provider, resolveOk>>

\* mutant: after the last attempt the round goes on without a first answer
FirstSpeakerInvalid_Skip ==
  LET ev == Append(events, Ev("firstSpeakerRetry", attempt))
  IN IF attempt < OuterMaxAttempts
     THEN /\ events' = ev
          /\ pc' = "S1Wait"
          /\ UNCHANGED <<conv, providers, registryWrites, provider, resolveOk, attempt, idx>>
     ELSE /\ LoopAt(1, conv, ev)
          /\ UNCHANGED attempt

\* mutant: the response found invalid is pushed before the next attempt
FirstSpeakerInvalid_Pushes ==
  LET ev == Append(events, Ev("firstSpeakerRetry", attempt))
  IN IF attempt < OuterMaxAttempts
     THEN /\ events' = ev
          /\ conv' = [conv EXCEPT !.messages =
                        Append(@, AssistantMessage(discussionOrder[1], "placeholder"))]
          /\ pc' = "S1Wait"
          /\ UNCHANGED <<providers, registryWrites, provider, resolveOk, attempt, idx>>
     ELSE FailDiscussion(ev)

\* mutant: the loop gives up after the first attempt
FirstSpeakerInvalid_GivesUp ==
  FailDiscussion(Append(events, Ev("firstSpeakerRetry", attempt)))

\* getFirstSpeakerResponse: the attempt gave no valid response (invalid
\* response or exception): firstSpeakerRetry, then the 3 s wait or, after
\* the last attempt, null, on which runDiscussionRound throws
FirstSpeakerInvalid ==
  LET ev == IF EnableRealTimeUpdates
            THEN Append(events, Ev("firstSpeakerRetry", attempt)) ELSE events
  IN IF attempt < OuterMaxAttempts
     THEN /\ events' = ev
          /\ pc' = "S1Wait"
          /\ UNCHANGED <<conv, providers, registryWrites, provider, resolveOk, attempt, idx>>
     ELSE FailDiscussion(ev)

\* the message of participant p is pushed; the message at loop index i is
\* announced
Pushed(c, p, response) ==
  [c EXCEPT !.messages = Append(c.messages, AssistantMessage(p, response))]
\* mutant: the message is announced twice
Announced_Twice(ev, i) ==
  ev \o <<Ev("messageReceived", i), Ev("messageReceived", i)>>

Announced(ev, i) ==
  IF EnableRealTimeUpdates THEN Append(ev, Ev("messageReceived", i)) ELSE ev

\* the continuation of getParticipantResponse's caller on its response: in
\* Stage 1 getFirstSpeakerResponse and runDiscussionRound lines 508-527, in
\* Stage 2 the body of the for loop, lines 530-562
Settle(response) ==
  LET p == discussionOrder[idx + 1] IN
  IF idx = 0
  THEN /\ UNCHANGED dropped
       /\ IF isValidFirstResponse(response)
          THEN IF isAppendable(response)
               THEN /\ conv' = Pushed(conv, p, response)
                    /\ events' = Announced(events, 0)
                    /\ pc' = "Pace"
                    /\ UNCHANGED <<providers, registryWrites, provider, resolveOk, attempt, idx>>
               ELSE FailDiscussion(events)
          ELSE FirstSpeakerInvalid
  ELSE /\ UNCHANGED attempt
       /\ dropped' = IF response \in {"text", "marked"} THEN dropped
                     ELSE dropped \cup {p.id}
       /\ IF response # "exception" /\ isAppendable(response)
          THEN IF idx < Len(discussionOrder) - 1
               THEN /\ conv' = Pushed(conv, p, response)
                    /\ events' = Announced(events, idx)
                    /\ pc' = "Pace"
                    /\ UNCHANGED <<providers, registryWrites, provider, resolveOk, idx>>
               ELSE LoopAt(idx + 1, Pushed(conv, p, response), Announced(events, idx))
          ELSE LoopAt(idx + 1, conv, events)

\* Stage 1 bookkeeping: an attempt of the first speaker made `failed`
\* retryable failures and ended as `class`
Stage1Log(failed, class, valid) ==
  LET cls == IF idx # 0 \/ s1Class = "other" THEN s1Class
             ELSE IF class = "clean" THEN s1Class ELSE class
  IN /\ s1Class' = cls
     /\ s1Failures' = IF idx # 0 THEN s1Failures
                      ELSE IF valid \/ cls = "other" THEN 0
                      ELSE s1Failures + failed

\* ---------------------------------------------------------------- actions
\* startDiscussion(clientId, topic) with topic.participants = req, and the
\* synchronous start of runDiscussion / runDiscussionRound /
\* getFirstSpeakerResponse up to the first await
StartDiscussion(req) ==
  /\ pc = "Pending"
  /\ request' = req
  /\ clientMaps' = clientMaps \cup {ClientId}
  /\ IF Len(req) < 2 \/ \E k \in 1..Len(req) : getRoleById(req[k].roleId) = NoRole
     THEN /\ startResult' = "threw"
          /\ pc' = "Rejected"
          /\ UNCHANGED <<conv, providers, registryWrites, provider, events, discussionOrder, attempt, idx,
                         resolveOk>>
     ELSE LET aiParticipants ==
                [k \in 1..Len(req) |->
                   createParticipant(k, req[k].roleId, req[k].provider,
                                     getRoleById(req[k].roleId))]
              IsActive(p) == p.isActive
              order == getDiscussionOrder(SelectSeq(aiParticipants, IsActive))
              started == <<Ev("discussionStarted", 0), Ev("roundStarted", Len(order))>>
          IN /\ startResult' = "id"
             /\ discussionOrder' = order
             /\ idx' = 0
             /\ IF order = <<>>
                THEN /\ conv' = [status |-> "error", participants |-> aiParticipants,
                                 messages |-> <<UserMessage>>, currentRound |-> 1]
                     /\ events' = events \o started \o <<Ev("discussionError", 0)>>
                     /\ pc' = "Done"
                     /\ UNCHANGED <<providers, registryWrites, provider, attempt, resolveOk>>
                ELSE /\ conv' = [status |-> "active", participants |-> aiParticipants,
                                 messages |-> <<UserMessage>>, currentRound |-> 1]
                     /\ events' = events \o started
                     /\ attempt' = 1
                     /\ BeginCall(order[1])
  /\ UNCHANGED <<streamFallback, wrapperVars, dbVars, managerVars, raceVars, providerCalls, dropped, s1Failures, s1Class>>

\* getParticipantResponse resumes with the provider: generateResponse is
\* invoked and raced against the response timer
ProviderResolved ==
  /\ pc = "Resolve"
  /\ resolveOk
  /\ pc' = "InFlight"
  /\ providerCalls' = providerCalls \cup {discussionOrder[idx + 1].id}
  /\ UNCHANGED <<request, startResult, clientMaps, conv, providers, registryWrites, provider, events,
                 discussionOrder, attempt, idx, resolveOk, streamFallback, wrapperVars, dbVars, managerVars, raceVars, dropped,
                 s1Failures, s1Class>>

\* mutant: in Stage 2 the exception is not caught by the loop
ProviderRejected_Escalates ==
  /\ pc = "Resolve"
  /\ ~resolveOk
  /\ Stage1Log(0, "other", FALSE)
  /\ IF idx = 0 THEN Settle("exception")
     ELSE FailDiscussion(events) /\ UNCHANGED dropped
  /\ UNCHANGED <<request, startResult, clientMaps, discussionOrder, streamFallback, wrapperVars, dbVars, managerVars, raceVars,
                 providerCalls>>

\* createProvider threw: the exception leaves getParticipantResponse
ProviderRejected ==
  /\ pc = "Resolve"
  /\ ~resolveOk
  /\ Stage1Log(0, "other", FALSE)
  /\ Settle("exception")
  /\ UNCHANGED <<request, startResult, clientMaps, discussionOrder, streamFallback, wrapperVars, dbVars, managerVars, raceVars,
                 providerCalls>>

\* generateResponse settles before the response timer, the provider having
\* behaved as script: getParticipantResponse returns the message, or the
\* error placeholder when generateResponse threw
ResponseSettled(script) ==
  /\ pc = "InFlight"
  /\ LET r == generateResponse(script, streamFallback)
         response == IF r.threw THEN "placeholder" ELSE r.value
     IN /\ Stage1Log(IF r.value = "retryable" THEN r.attempts ELSE r.attempts - 1,
                     IF r.value \in {"text", "retryable"} THEN "clean" ELSE "other",
                     isValidFirstResponse(response))
        /\ Settle(response)
  /\ UNCHANGED <<request, startResult, clientMaps, discussionOrder, streamFallback, wrapperVars, dbVars, managerVars, raceVars,
                 providerCalls>>

\* mutant: the Promise.race has no timer branch
ResponseTimeout_Never == FALSE /\ UNCHANGED vars

\* getParticipantResponse: the response timer wins the Promise.race; the
\* catch block returns the error placeholder message
ResponseTimeout ==
  /\ pc = "InFlight"
  /\ Stage1Log(0, "timeout", FALSE)
  /\ Settle("placeholder")
  /\ UNCHANGED <<request, startResult, clientMaps, discussionOrder, streamFallback, wrapperVars, dbVars, managerVars, raceVars,
                 providerCalls>>

\* getFirstSpeakerResponse: the 3 s wait is over, the next attempt begins
FirstSpeakerWaitElapsed ==
  /\ pc = "S1Wait"
  /\ attempt' = attempt + 1
  /\ BeginCall(discussionOrder[1])
  /\ UNCHANGED <<request, startResult, clientMaps, conv, events, discussionOrder, idx,
                 streamFallback, wrapperVars, dbVars, managerVars, raceVars, providerCalls, dropped, s1Failures, s1Class>>

\* runDiscussionRound: the 2 s pacing delay is over, the loop goes on
PaceElapsed ==
  /\ pc = "Pace"
  /\ LoopAt(idx + 1, conv, events)
  /\ UNCHANGED <<request, startResult, clientMaps, discussionOrder, attempt,
                 streamFallback, wrapperVars, dbVars, managerVars, raceVars, providerCalls, dropped, s1Failures, s1Class>>

\* a caller starts a discussion with some request
Start == pc = "Pending" /\ \E req \in Requests : StartDiscussion(req)

\* the provider call in flight settles in some way
Settled == pc = "InFlight" /\ \E script \in Scripts : ResponseSettled(script)

Next ==
  \/ Start
  \/ ProviderResolved
  \/ ProviderRejected
  \/ Settled
  \/ ResponseTimeout
  \/ FirstSpeakerWaitElapsed
  \/ PaceElapsed

Spec == Init /\ [][Next]_vars

\* what the runtime guarantees: a settled promise's continuation runs
\* (createProvider has no await, its promise is settled at once) and a timer
\* that was set fires.  Nothing is assumed of the provider: its call may
\* never settle.
Fairness ==
  /\ WF_vars(ProviderResolved)
  /\ WF_vars(ProviderRejected)
  /\ WF_vars(ResponseTimeout)
  /\ WF_vars(FirstSpeakerWaitElapsed)
  /\ WF_vars(PaceElapsed)

\* the start requests followed to termination: the control flow after
\* startDiscussion's validation reads a participant's provider, never its
\* role, so two catalog roles stand for all
LiveSlots == [roleId : {"first_speaker", "critic"}, provider : ProviderNames]
LiveRequests == UNION {[1..n -> LiveSlots] : n \in 0..MaxParticipants}

StartLive == pc = "Pending" /\ \E req \in LiveRequests : StartDiscussion(req)

NextLive ==
  \/ StartLive
  \/ ProviderResolved
  \/ ProviderRejected
  \/ Settled
  \/ ResponseTimeout
  \/ FirstSpeakerWaitElapsed
  \/ PaceElapsed

SpecLive == Init /\ [][NextLive]_vars /\ Fairness

\* ----------------------------------------------- abandoned calls: actions
\* the generateResponse call in flight, as it is kept once abandoned
callInFlight ==
  [id |-> discussionOrder[idx + 1].id, turn |-> idx, attempt |-> attempt, arrived |-> FALSE]

\* getParticipantResponse lines 717-725: the response timer wins the
\* Promise.race and the catch block returns the error placeholder message.
\* Nothing cancels generateResponse: the call goes on, abandoned
TimerWins ==
  /\ pc = "InFlight"
  /\ Stage1Log(0, "timeout", FALSE)
  /\ Settle("placeholder")
  /\ orphans' = orphans \cup {callInFlight}
  /\ UNCHANGED <<request, startResult, clientMaps, discussionOrder, streamFallback, providerCalls>>
  /\ UNCHANGED <<wrapperVars, dbVars, managerVars>>

\* mutant: a result arriving late is pushed and announced like one in time
LateResult_Appends(o) ==
  /\ o \in orphans
  /\ ~o.arrived
  /\ orphans' = (orphans \ {o}) \cup {[o EXCEPT !.arrived = TRUE]}
  /\ conv' = Pushed(conv, discussionOrder[o.turn + 1], "text")
  /\ events' = Announced(events, o.turn)
  /\ UNCHANGED <<pc, request, startResult, clientMaps, providers, registryWrites, provider,
                 discussionOrder, attempt, idx, resolveOk, streamFallback, providerCalls,
                 dropped, s1Failures, s1Class>>
  /\ UNCHANGED <<wrapperVars, dbVars, managerVars>>

\* an abandoned generateResponse call settles, with a text or an error: the
\* Promise.race of lines 717-725 has settled already, no continuation of the
\* discussion is attached to the call
LateResult(o) ==
  /\ o \in orphans
  /\ ~o.arrived
  /\ orphans' = (orphans \ {o}) \cup {[o EXCEPT !.arrived = TRUE]}
  /\ UNCHANGED <<discussionVars, wrapperVars, dbVars, managerVars>>

\* a discussion followed together with the calls it abandons
NextRace ==
  \/ StartLive
  \/ ProviderResolved
  \/ ProviderRejected
  \/ Settled
  \/ TimerWins
  \/ \E o \in orphans : LateResult(o)
  \/ FirstSpeakerWaitElapsed
  \/ PaceElapsed

SpecRace == Init /\ [][NextRace]_vars

TypeOK ==
  /\ pc \in {"Pending", "Rejected", "Resolve", "InFlight", "S1Wait", "Pace", "Done"}
  /\ attempt \in 0..OuterMaxAttempts
  /\ s1Failures \in 0..(OuterMaxAttempts * RetryMaxAttempts)

\* ------------------------------------------------ retry wrapper: actions
\* what one network call ends with: text, or an error
NetResults ==
  {[ok |-> TRUE, text |-> t, error |-> NoError] : t \in Texts}
    \cup {[ok |-> FALSE, text |-> <<>>, error |-> e] : e \in NetErrors}

\* withRetry catch block (lines 76-90): the operation threw error
AttemptFailed(error) ==
  /\ lastError' = error
  /\ failedAttempts' = failedAttempts + 1
  /\ IF isFinalFailure(retryAttempt, error, retryConfig)
     THEN /\ wpc' = "Threw"
          /\ wresult' = [text |-> <<>>, error |-> error]
          /\ UNCHANGED delays
     ELSE /\ wpc' = "Delay"
          /\ delays' = Append(delays, calculateDelay(retryAttempt, retryConfig))
          /\ UNCHANGED wresult

\* generateResponse lines 146-150 and withRetry line 75: the operation has
\* parsedResponse in hand
AttemptParsed(parsedResponse) ==
  IF isBlank(parsedResponse)
  THEN AttemptFailed(EmptyResponseError(WrapperProvider))
  ELSE /\ wpc' = "Returned"
       /\ wresult' = [text |-> parsedResponse, error |-> NoError]
       /\ UNCHANGED <<lastError, failedAttempts, delays>>

\* withRetry line 75: the operation is invoked and sends its streaming request
InvokeOperation ==
  /\ retryAttempt' = retryAttempt + 1
  /\ invocations' = invocations + 1
  /\ requests' = [requests EXCEPT !.stream = @ + 1]
  /\ streamError' = NoError
  /\ wpc' = "Stream"

\* generateResponse is called
GenerateResponseCalled ==
  /\ wpc = "Idle"
  /\ InvokeOperation
  /\ UNCHANGED <<retryConfig, lastError, failedAttempts, delays, wresult>>
  /\ UNCHANGED <<discussionVars, dbVars, managerVars, raceVars>>

\* mutant: a failed streaming path fails the attempt, fallback or not
StreamSettled_NoFallback(res) ==
  /\ IF res.ok
     THEN /\ AttemptParsed(res.text)
          /\ UNCHANGED <<requests, streamError>>
     ELSE /\ AttemptFailed(res.error)
          /\ streamError' = res.error
          /\ UNCHANGED requests
  /\ UNCHANGED <<retryConfig, retryAttempt, invocations>>
  /\ UNCHANGED <<discussionVars, dbVars, managerVars, raceVars>>

\* the streaming path (makeStreamRequest, handleStreamResponse) is over
StreamSettled(res) ==
  /\ IF res.ok
     THEN /\ AttemptParsed(res.text)
          /\ UNCHANGED <<requests, streamError>>
     ELSE IF streamFallback
          THEN /\ wpc' = "NonStream"
               /\ streamError' = res.error
               /\ requests' = [requests EXCEPT !.nonStream = @ + 1]
               /\ UNCHANGED <<lastError, failedAttempts, delays, wresult>>
          ELSE /\ AttemptFailed(res.error)
               /\ streamError' = res.error
               /\ UNCHANGED requests
  /\ UNCHANGED <<retryConfig, retryAttempt, invocations>>
  /\ UNCHANGED <<discussionVars, dbVars, managerVars, raceVars>>

StreamOver == wpc = "Stream" /\ \E res \in NetResults : StreamSettled(res)

\* the non-streaming request (makeRequest, parseResponse) is over
NonStreamSettled(res) ==
  /\ IF res.ok THEN AttemptParsed(res.text) ELSE AttemptFailed(res.error)
  /\ UNCHANGED <<retryConfig, retryAttempt, invocations, requests, streamError>>
  /\ UNCHANGED <<discussionVars, dbVars, managerVars, raceVars>>

NonStreamOver == wpc = "NonStream" /\ \E res \in NetResults : NonStreamSettled(res)

\* withRetry line 89: the delay is over, the loop goes round
RetryDelayElapsed ==
  /\ wpc = "Delay"
  /\ InvokeOperation
  /\ UNCHANGED <<retryConfig, lastError, failedAttempts, delays, wresult>>
  /\ UNCHANGED <<discussionVars, dbVars, managerVars, raceVars>>

\* one generateResponse call followed step by step, under any retry
\* configuration and either setting of the stream fallback
InitWrapper ==
  /\ pc = "Pending"
  /\ request = <<>>
  /\ startResult = "none"
  /\ clientMaps = {}
  /\ conv = NoConv
  /\ providers = {}
  /\ registryWrites = [n \in ProviderNames |-> 0]
  /\ provider = NoProvider
  /\ events = <<>>
  /\ discussionOrder = <<>>
  /\ attempt = 0
  /\ idx = 0
  /\ resolveOk = FALSE
  /\ streamFallback \in BOOLEAN
  /\ providerCalls = {}
  /\ dropped = {}
  /\ s1Failures = 0
  /\ s1Class = "clean"
  /\ retryConfig \in RetryConfigs
  /\ WrapperAt("Idle")
  /\ foreignKeys = TRUE
  /\ DbEmpty
  /\ ManagerIdle
  /\ orphans = {}

NextWrapper ==
  GenerateResponseCalled \/ StreamOver \/ NonStreamOver \/ RetryDelayElapsed

SpecWrapper == InitWrapper /\ [][NextWrapper]_vars

\* --------------------------------------------------- persistence: actions
\* messages and conversations handed to the DatabaseManager
StoredMessages == [id : MessageIds, content : {"x", "y"}]
StoredStatuses == {"active", "completed"}

\* the row saveMessage binds to its statement
messageRow(message, conversationId) ==
  [id |-> message.id, conversation_id |-> conversationId, content |-> message.content]

\* mutant: a plain INSERT that keeps the row already there
insertOrReplace_Insert(table, row) == table \cup {row}

\* SQLite INSERT OR REPLACE on a table whose primary key is id
insertOrReplace(table, row) == {r \in table : r.id # row.id} \cup {row}

\* the foreign key of messages.conversation_id lets the row in
referenceHolds(conversationId) ==
  ~foreignKeys \/ \E c \in dbConversations : c.id = conversationId

\* the latest two entries of a call log
LastTwo(log) == IF Len(log) <= 2 THEN log ELSE SubSeq(log, Len(log) - 1, Len(log))

\* DatabaseManager.saveMessage; a foreign key violation makes stmt.run throw
SaveMessage(message, conversationId) ==
  LET row == messageRow(message, conversationId)
      ok == referenceHolds(conversationId)
  IN /\ dbMessages' = IF ok THEN insertOrReplace(dbMessages, row) ELSE dbMessages
     /\ saveLog' = LastTwo(Append(saveLog, [before |-> dbMessages, row |-> row, threw |-> ~ok]))
     /\ UNCHANGED <<dbConversations, foreignKeys>>
     /\ UNCHANGED <<discussionVars, wrapperVars, managerVars, raceVars>>

\* DatabaseManager.saveConversation; replacing a stored conversation deletes
\* its row first, and with foreign keys enforced the delete cascades to the
\* conversation's messages
SaveConversation(conversationId, status) ==
  LET row == [id |-> conversationId, client_id |-> ClientId, status |-> status]
      stored == \E c \in dbConversations : c.id = conversationId
  IN /\ dbConversations' = insertOrReplace(dbConversations, row)
     /\ dbMessages' = IF foreignKeys /\ stored
                      THEN {m \in dbMessages : m.conversation_id # conversationId}
                      ELSE dbMessages
     /\ saveLog' = <<>>
     /\ UNCHANGED foreignKeys
     /\ UNCHANGED <<discussionVars, wrapperVars, managerVars, raceVars>>

MessageSaved ==
  \E message \in StoredMessages, conversationId \in ConversationIds :
    SaveMessage(message, conversationId)

ConversationSaved ==
  \E conversationId \in ConversationIds, status \in StoredStatuses :
    SaveConversation(conversationId, status)

\* a DatabaseManager on an empty database, on either kind of SQLite build
InitDb ==
  /\ DiscussionIdle
  /\ retryConfig = [maxAttempts |-> RetryMaxAttempts, baseDelay |-> 2000, maxDelay |-> 2000,
                    backoffFactor |-> 1, retryableErrors |-> DefaultRetryableErrors]
  /\ WrapperAt("Off")
  /\ foreignKeys \in BOOLEAN
  /\ DbEmpty
  /\ ManagerIdle
  /\ orphans = {}

NextDb == MessageSaved \/ ConversationSaved

SpecDb == InitDb /\ [][NextDb]_vars

\* --------------------------------------------- manager and its API: steps
\* the start requests the callers make: a gemini-bound first speaker with a
\* critic, a critic with a synthesizer whose provider has no credential, and
\* a request of one participant
ManagerRequests ==
  { <<[roleId |-> "first_speaker", provider |-> "gemini"],
      [roleId |-> "critic", provider |-> "claude"]>>,
    <<[roleId |-> "critic", provider |-> "claude"],
      [roleId |-> "synthesizer", provider |-> "grok"]>>,
    <<[roleId |-> "critic", provider |-> "gemini"]>> }

\* a message without metadata.participantId, and the initial user message
NoParticipantId == <<"", 0>>
Prompt == [UserMessage EXCEPT !.participantId = NoParticipantId]

\* _getUserConversations (lines 399-401): the maps after the call
ensure(maps, clientId) ==
  IF clientId \in DOMAIN maps THEN maps ELSE (clientId :> EmptyMap) @@ maps

\* mutant: one map for all clients
lookup_Shared(maps, clientId, conversationId) ==
  {<<c, conversationId>> : c \in {d \in DOMAIN maps : conversationId \in DOMAIN maps[d]}}

\* _getUserConversations(clientId).get(conversationId): the place (client id,
\* conversation id) of the conversation found, if any
lookup(maps, clientId, conversationId) ==
  IF clientId \in DOMAIN maps /\ conversationId \in DOMAIN maps[clientId]
  THEN {<<clientId, conversationId>>} ELSE {}

\* Array.from(_getUserConversations(clientId).values())
valuesOf(maps, clientId) ==
  IF clientId \in DOMAIN maps THEN {<<clientId, k>> : k \in DOMAIN maps[clientId]} ELSE {}

\* what a step of a chain leaves behind: the chain, its conversation and the
\* events of its conversation
Out(ch, c, ev) == [chain |-> ch, conv |-> c, events |-> ev]

\* getParticipantResponse is called for the participant at loop index i:
\* createProvider has run and its promise is pending
callAt(ch, i, registry) ==
  [ch EXCEPT !.idx = i, !.pc = "Resolve",
             !.resolveOk = createProviderOk(registry, ch.discussionOrder[i + 1].provider)]

\* providers.set of the call that chain state ch has just begun
memoize(registry, ch) ==
  IF ch.pc = "Resolve" /\ ch.resolveOk
  THEN registry \cup {ch.discussionOrder[ch.idx + 1].provider} ELSE registry

\* runDiscussion's catch block
failed(ch, c, ev) ==
  Out([ch EXCEPT !.pc = "Done"], [c EXCEPT !.status = "error"],
      Append(ev, Ev("discussionError", 0)))

\* runDiscussionRound's for loop at index i; past the last participant
\* runDiscussion completes the conversation
loopAt(ch, i, c, ev, registry) ==
  IF i < Len(ch.discussionOrder)
  THEN Out(callAt(ch, i, registry), c, ev)
  ELSE Out([ch EXCEPT !.pc = "Done", !.idx = i], [c EXCEPT !.status = "completed"],
           Append(ev, Ev("discussionCompleted", Len(c.messages))))

\* the continuation of getParticipantResponse's caller on its response, as
\* Settle above, for the chain ch of conversation c
settle(ch, c, ev, response, registry) ==
  LET p == ch.discussionOrder[ch.idx + 1]
      retried == IF EnableRealTimeUpdates
                 THEN Append(ev, Ev("firstSpeakerRetry", ch.attempt)) ELSE ev
  IN IF ch.idx = 0
     THEN IF isValidFirstResponse(response)
          THEN IF isAppendable(response)
               THEN Out([ch EXCEPT !.pc = "Pace"], Pushed(c, p, response), Announced(ev, 0))
               ELSE failed(ch, c, ev)
          ELSE IF ch.attempt < OuterMaxAttempts
               THEN Out([ch EXCEPT !.pc = "S1Wait"], c, retried)
               ELSE failed(ch, c, retried)
     ELSE IF response # "exception" /\ isAppendable(response)
          THEN IF ch.idx < Len(ch.discussionOrder) - 1
               THEN Out([ch EXCEPT !.pc = "Pace"], Pushed(c, p, response),
                        Announced(ev, ch.idx))
               ELSE loopAt(ch, ch.idx + 1, Pushed(c, p, response), Announced(ev, ch.idx),
                           registry)
          ELSE loopAt(ch, ch.idx + 1, c, ev, registry)

\* the conversation the chain of conversation id k works on
conversationOf(k) == activeConversations[chains[k].clientId][k]

\* the chain of conversation k takes a step that leaves out behind
Resume(k, out) ==
  /\ chains' = [chains EXCEPT ![k] = out.chain]
  /\ activeConversations' = [activeConversations EXCEPT ![chains[k].clientId][k] = out.conv]
  /\ emitted' = [emitted EXCEPT ![k] = out.events]
  /\ factoryProviders' = memoize(factoryProviders, out.chain)
  /\ UNCHANGED <<lastCall, apiCalls>>
  /\ UNCHANGED <<discussionVars, wrapperVars, dbVars, raceVars>>

\* startDiscussion(clientId, topic) with topic.participants = req; the
\* conversation gets a fresh id k
StartDiscussionBy(clientId, req, k) ==
  /\ chains[k].pc = "None"
  /\ IF Len(req) < 2 \/ \E n \in 1..Len(req) : getRoleById(req[n].roleId) = NoRole
     THEN /\ activeConversations' = ensure(activeConversations, clientId)
          /\ lastCall' = [op |-> "startDiscussion", clientId |-> clientId,
                          conversationId |-> "", ok |-> FALSE, returned |-> {}]
          /\ UNCHANGED <<chains, factoryProviders, emitted>>
     ELSE LET aiParticipants ==
                [n \in 1..Len(req) |->
                   createParticipant(<<k, n>>, req[n].roleId, req[n].provider,
                                     getRoleById(req[n].roleId))]
              IsActive(p) == p.isActive
              order == getDiscussionOrder(SelectSeq(aiParticipants, IsActive))
              conversation == [status |-> "active", participants |-> aiParticipants,
                               messages |-> <<Prompt>>, currentRound |-> 1]
              ch == callAt([NoChain EXCEPT !.clientId = clientId, !.discussionOrder = order,
                                           !.attempt = 1], 0, factoryProviders)
          IN /\ activeConversations' =
                  [ensure(activeConversations, clientId) EXCEPT
                     ![clientId] = (k :> conversation) @@ @]
             /\ chains' = [chains EXCEPT ![k] = ch]
             /\ emitted' = [emitted EXCEPT
                              ![k] = <<Ev("discussionStarted", 0), Ev("roundStarted", Len(order))>>]
             /\ factoryProviders' = memoize(factoryProviders, ch)
             /\ lastCall' = [op |-> "startDiscussion", clientId |-> clientId,
                             conversationId |-> k, ok |-> TRUE, returned |-> {}]
  /\ UNCHANGED apiCalls
  /\ UNCHANGED <<discussionVars, wrapperVars, dbVars, raceVars>>

\* getParticipantResponse resumes with the provider and invokes
\* generateResponse, raced against the response timer
ProviderResolvedIn(k) ==
  /\ chains[k].pc = "Resolve"
  /\ chains[k].resolveOk
  /\ Resume(k, Out([chains[k] EXCEPT !.pc = "InFlight"], conversationOf(k), emitted[k]))

\* createProvider threw
ProviderRejectedIn(k) ==
  /\ chains[k].pc = "Resolve"
  /\ ~chains[k].resolveOk
  /\ Resume(k, settle(chains[k], conversationOf(k), emitted[k], "exception",
                      factoryProviders))

\* generateResponse settles before the timer, giving the response
ResponseSettledIn(k, response) ==
  /\ chains[k].pc = "InFlight"
  /\ Resume(k, settle(chains[k], conversationOf(k), emitted[k], response, factoryProviders))

\* the response timer wins the race
ResponseTimeoutIn(k) ==
  /\ chains[k].pc = "InFlight"
  /\ Resume(k, settle(chains[k], conversationOf(k), emitted[k], "placeholder",
                      factoryProviders))

\* the 3 s wait of getFirstSpeakerResponse is over
FirstSpeakerWaitElapsedIn(k) ==
  /\ chains[k].pc = "S1Wait"
  /\ Resume(k, Out(callAt([chains[k] EXCEPT !.attempt = @ + 1], 0, factoryProviders),
                   conversationOf(k), emitted[k]))

\* the 2 s pacing delay of runDiscussionRound is over
PaceElapsedIn(k) ==
  /\ chains[k].pc = "Pace"
  /\ Resume(k, loopAt(chains[k], chains[k].idx + 1, conversationOf(k), emitted[k],
                      factoryProviders))

\* ----------------------------------------------- manager and its API: API
\* the message a caller hands to addMessage
ApiMessages ==
  {[role |-> r, participantId |-> NoParticipantId, participantRole |-> "", model |-> "",
    isErrorMessage |-> FALSE] : r \in {"user", "assistant"}}

\* the updates a caller hands to updateParticipant
Updates == {[isActive |-> FALSE], [provider |-> "grok"]}

\* the conversation ids callers pass
CalledIds == ConversationIds \cup {UnknownConversationId}

\* an API call is made and returns
Returns(op, clientId, conversationId, ok, returned) ==
  /\ apiCalls < MaxApiCalls
  /\ apiCalls' = apiCalls + 1
  /\ lastCall' = [op |-> op, clientId |-> clientId, conversationId |-> conversationId,
                  ok |-> ok, returned |-> returned]
  /\ UNCHANGED <<chains, factoryProviders>>
  /\ UNCHANGED <<discussionVars, wrapperVars, dbVars, raceVars>>

\* the conversation at place l is replaced by c
Stored(maps, l, c) == [maps EXCEPT ![l[1]][l[2]] = c]

\* mutant: unshift instead of push
addedTo_Front(c, message) == [c EXCEPT !.messages = <<message>> \o @]

\* addMessage line 851: conversation.messages.push(newMessage)
addedTo(c, message) == [c EXCEPT !.messages = Append(@, message)]

\* updateParticipant lines 825-831: the participant with that id is replaced
\* by a copy carrying the updates
updated(c, participantId, updates) ==
  [c EXCEPT !.participants =
     [n \in DOMAIN @ |-> IF @[n].id = participantId THEN updates @@ @[n] ELSE @[n]]]

\* mutant: stopDiscussion ends the conversation
stopped_Ends(c) == [c EXCEPT !.status = "error"]

\* stopDiscussion lines 858-864: the conversation is looked up, not touched
stopped(c) == c

\* DiscussionManager.getConversation(clientId, conversationId)
GetConversation(clientId, conversationId) ==
  LET maps == ensure(activeConversations, clientId) IN
  /\ Returns("getConversation", clientId, conversationId,
             lookup(maps, clientId, conversationId) # {},
             lookup(maps, clientId, conversationId))
  /\ activeConversations' = maps
  /\ UNCHANGED emitted

\* DiscussionManager.getAllConversations(clientId)
GetAllConversations(clientId) ==
  LET maps == ensure(activeConversations, clientId) IN
  /\ Returns("getAllConversations", clientId, "", TRUE, valuesOf(maps, clientId))
  /\ activeConversations' = maps
  /\ UNCHANGED emitted

\* DiscussionManager.addMessage(clientId, conversationId, message)
AddMessage(clientId, conversationId, message) ==
  LET maps == ensure(activeConversations, clientId)
      found == lookup(maps, clientId, conversationId)
  IN /\ Returns("addMessage", clientId, conversationId, found # {}, {})
     /\ IF found = {}
        THEN /\ activeConversations' = maps
             /\ UNCHANGED emitted
        ELSE LET l == CHOOSE x \in found : TRUE IN
             /\ activeConversations' = Stored(maps, l, addedTo(maps[l[1]][l[2]], message))
             /\ emitted' = [emitted EXCEPT ![l[2]] = Append(@, Ev("messageAdded", 0))]

\* mutant: the participant object is changed in place (Object.assign), so
\* that the discussionOrder of the running round sees the updates
UpdateParticipant_InPlace(clientId, conversationId, participantId, updates) ==
  LET maps == ensure(activeConversations, clientId)
      found == lookup(maps, clientId, conversationId)
      l == CHOOSE x \in found : TRUE
      known == found # {} /\ \E n \in DOMAIN maps[l[1]][l[2]].participants :
                                 maps[l[1]][l[2]].participants[n].id = participantId
  IN /\ apiCalls < MaxApiCalls
     /\ apiCalls' = apiCalls + 1
     /\ lastCall' = [op |-> "updateParticipant", clientId |-> clientId,
                     conversationId |-> conversationId, ok |-> known, returned |-> {}]
     /\ activeConversations' =
          IF known THEN Stored(maps, l, updated(maps[l[1]][l[2]], participantId, updates))
          ELSE maps
     /\ chains' =
          IF known
          THEN [chains EXCEPT ![conversationId].discussionOrder =
                  [n \in DOMAIN @ |-> IF @[n].id = participantId THEN updates @@ @[n]
                                      ELSE @[n]]]
          ELSE chains
     /\ UNCHANGED <<factoryProviders, emitted>>
     /\ UNCHANGED <<discussionVars, wrapperVars, dbVars, raceVars>>

\* DiscussionManager.updateParticipant(clientId, conversationId,
\* participantId, updates)
UpdateParticipant(clientId, conversationId, participantId, updates) ==
  LET maps == ensure(activeConversations, clientId)
      found == lookup(maps, clientId, conversationId)
      l == CHOOSE x \in found : TRUE
      known == found # {} /\ \E n \in DOMAIN maps[l[1]][l[2]].participants :
                                 maps[l[1]][l[2]].participants[n].id = participantId
  IN /\ Returns("updateParticipant", clientId, conversationId, known, {})
     /\ activeConversations' =
          IF known THEN Stored(maps, l, updated(maps[l[1]][l[2]], participantId, updates))
          ELSE maps
     /\ UNCHANGED emitted

\* DiscussionManager.stopDiscussion(clientId, conversationId)
StopDiscussion(clientId, conversationId) ==
  LET maps == ensure(activeConversations, clientId)
      found == lookup(maps, clientId, conversationId)
  IN /\ Returns("stopDiscussion", clientId, conversationId, found # {}, {})
     /\ IF found = {}
        THEN /\ activeConversations' = maps
             /\ UNCHANGED emitted
        ELSE LET l == CHOOSE x \in found : TRUE IN
             /\ activeConversations' = Stored(maps, l, stopped(maps[l[1]][l[2]]))
             /\ emitted' = [emitted EXCEPT ![l[2]] = Append(@, Ev("discussionStopped", 0))]

\* ------------------------------------------ manager and its API: behaviour
\* timers fire and the continuations of settled promises run, in every chain;
\* nothing is assumed of the providers or of the callers
FairnessManager ==
  \A k \in ConversationIds :
    /\ WF_vars(ProviderResolvedIn(k))
    /\ WF_vars(ProviderRejectedIn(k))
    /\ WF_vars(ResponseTimeoutIn(k))
    /\ WF_vars(FirstSpeakerWaitElapsedIn(k))
    /\ WF_vars(PaceElapsedIn(k))

\* a DiscussionManager after construction
InitManager ==
  /\ DiscussionIdle
  /\ retryConfig = [maxAttempts |-> RetryMaxAttempts, baseDelay |-> 2000, maxDelay |-> 2000,
                    backoffFactor |-> 1, retryableErrors |-> DefaultRetryableErrors]
  /\ WrapperAt("Off")
  /\ foreignKeys = TRUE
  /\ DbEmpty
  /\ ManagerIdle
  /\ orphans = {}

\* two clients start discussions that run concurrently, and read them
NextManager ==
  \/ \E clientId \in ClientIds, req \in ManagerRequests, k \in ConversationIds :
       StartDiscussionBy(clientId, req, k)
  \/ \E k \in ConversationIds : ProviderResolvedIn(k)
  \/ \E k \in ConversationIds : ProviderRejectedIn(k)
  \/ \E k \in ConversationIds, response \in Responses \ {"exception"} :
       ResponseSettledIn(k, response)
  \/ \E k \in ConversationIds : ResponseTimeoutIn(k)
  \/ \E k \in ConversationIds : FirstSpeakerWaitElapsedIn(k)
  \/ \E k \in ConversationIds : PaceElapsedIn(k)
  \/ \E clientId \in ClientIds, k \in CalledIds : GetConversation(clientId, k)
  \/ \E clientId \in ClientIds : GetAllConversations(clientId)

SpecManager == InitManager /\ [][NextManager]_vars /\ FairnessManager

\* one client starts one discussion; while it runs both clients call the
\* mutating API
NextApi ==
  \/ \E req \in ManagerRequests : StartDiscussionBy(ClientId, req, "k1")
  \/ \E k \in ConversationIds : ProviderResolvedIn(k)
  \/ \E k \in ConversationIds : ProviderRejectedIn(k)
  \/ \E k \in ConversationIds, response \in Responses \ {"exception"} :
       ResponseSettledIn(k, response)
  \/ \E k \in ConversationIds : ResponseTimeoutIn(k)
  \/ \E k \in ConversationIds : FirstSpeakerWaitElapsedIn(k)
  \/ \E k \in ConversationIds : PaceElapsedIn(k)
  \/ \E clientId \in ClientIds, k \in CalledIds, message \in ApiMessages :
       AddMessage(clientId, k, message)
  \/ \E clientId \in ClientIds, k \in CalledIds, n \in 1..2, updates \in Updates :
       UpdateParticipant(clientId, k, <<k, n>>, updates)
  \/ \E clientId \in ClientIds, k \in CalledIds : StopDiscussion(clientId, k)

SpecApi == InitManager /\ [][NextApi]_vars /\ FairnessManager

\* ------------------------------------------------------- claim vocabulary
IsAssistant(m) == m.role = "assistant"
AssistantMessages == SelectSeq(conv.messages, IsAssistant)

\* participant p has a message (no error placeholder) in the transcript
HasMessage(p) ==
  \E i \in DOMAIN conv.messages :
    /\ conv.messages[i].role = "assistant"
    /\ conv.messages[i].participantId = p.id
    /\ ~conv.messages[i].isErrorMessage

MessagesOf(p) ==
  Cardinality({i \in DOMAIN conv.messages :
                 conv.messages[i].role = "assistant" /\ conv.messages[i].participantId = p.id})

EventCount(type) == Cardinality({i \in DOMAIN events : events[i].type = type})

RoleCount(roleId) ==
  Cardinality({k \in DOMAIN conv.participants :
                 conv.participants[k].role = predefinedRoles[roleId]})

\* the participant set the specification calls valid
ValidRoleSet == RoleCount("first_speaker") = 1 /\ RoleCount("synthesizer") <= 1

\* stage of a message by the role of its participant
StageRank(m) ==
  IF m.participantRole = predefinedRoles["first_speaker"] THEN 1
  ELSE IF m.participantRole = predefinedRoles["synthesizer"] THEN 3 ELSE 2

\* runDiscussionRound line 501: the participant Stage 1 asks
firstSpeaker == discussionOrder[1]

\* p is the participant declared with role id first_speaker
HasFirstSpeakerRole(p) == p.role = predefinedRoles["first_speaker"]

\* ------------------------------------------------------------------ claims
\* C1: in a completed conversation the assistant messages are in the order
\* first_speaker participant, middle participants in declared order,
\* synthesizer.  The code orders by provider ("gemini" first), not by role.
C1_RoleOrder ==
  (conv.status = "completed" /\ ValidRoleSet) =>
    \A i, j \in DOMAIN AssistantMessages :
      i < j =>
        \/ StageRank(AssistantMessages[i]) < StageRank(AssistantMessages[j])
        \/ /\ StageRank(AssistantMessages[i]) = StageRank(AssistantMessages[j])
           /\ AssistantMessages[i].participantId < AssistantMessages[j].participantId

\* C2: when every outer attempt of Stage 1 has failed, the discussion is over
\* with status error and a discussionError event, no assistant message is in
\* the transcript and no participant but the first speaker was ever called.
C2_Stage1Exhausted ==
  EventCount("firstSpeakerRetry") = OuterMaxAttempts =>
    /\ pc = "Done"
    /\ conv.status = "error"
    /\ EventCount("discussionError") = 1
    /\ EventCount("discussionCompleted") = 0
    /\ AssistantMessages = <<>>
    /\ providerCalls \subseteq {firstSpeaker.id}

\* C2 witness: three failed attempts on a provider that was really called,
\* with other participants waiting
C2_Witness ==
  /\ EventCount("firstSpeakerRetry") = OuterMaxAttempts
  /\ HasFirstSpeakerRole(firstSpeaker)
  /\ firstSpeaker.id \in providerCalls
  /\ Len(discussionOrder) >= 2

C4_FirstSpeakerLeads ==
  (ValidRoleSet /\ AssistantMessages # <<>>) =>
    AssistantMessages[1].participantRole = predefinedRoles["first_speaker"]

\* C5: when the discussion is over and the calls to the first speaker's
\* provider failed with retryable errors only, fewer than retryAttempts x
\* outerAttempts times, the discussion is completed with exactly one message
\* of the first speaker.  Stated for the runs in which the first_speaker
\* participant is the one Stage 1 asks; a call that loses the race against
\* the response timeout uses up an outer attempt whatever the failure count.
C5_TransientRecovery ==
  (pc = "Done" /\ ValidRoleSet /\ HasFirstSpeakerRole(firstSpeaker)
     /\ s1Class # "other"
     /\ s1Failures < RetryMaxAttempts * OuterMaxAttempts) =>
    (conv.status = "completed" /\ MessagesOf(firstSpeaker) = 1)

\* C6: a completed conversation of a valid participant set holds a message
\* of the first_speaker participant, and a conversation in status error has
\* lost no Stage 2 / Stage 3 turn.  The first_speaker participant may have
\* been asked in Stage 2 and dropped, or never asked.
C6_CompletedHasFirstAnswer ==
  /\ (conv.status = "completed" /\ ValidRoleSet) =>
       \E k \in DOMAIN conv.participants :
         /\ HasFirstSpeakerRole(conv.participants[k])
         /\ HasMessage(conv.participants[k])
  /\ conv.status = "error" => dropped = {}

\* C7: a started discussion has exactly one first_speaker participant and at
\* most one synthesizer.  startDiscussion checks neither.
C7_RoleCardinality ==
  startResult = "id" => ValidRoleSet

C9_ProviderCheckedAtStart ==
  (startResult # "none"
     /\ \E k \in DOMAIN request : ~createProviderOk({}, request[k].provider)) =>
    /\ startResult = "threw"
    /\ conv = NoConv
    /\ EventCount("discussionStarted") = 0

\* C10: a conversation in status error has no assistant message and got there
\* by using up the Stage 1 attempts, in Stage 1.
C10_OnlyStage1Aborts ==
  conv.status = "error" =>
    /\ AssistantMessages = <<>>
    /\ idx = 0
    /\ attempt = OuterMaxAttempts
    /\ EventCount("firstSpeakerRetry") = OuterMaxAttempts

\* C10 witness: the first speaker answered, a later participant's provider
\* could not be resolved and another one's call failed, and the discussion
\* completed
C10_Witness ==
  /\ conv.status = "completed"
  /\ HasMessage(firstSpeaker)
  /\ \E k \in 2..Len(discussionOrder) :
       /\ discussionOrder[k].id \in dropped
       /\ ~createProviderOk({}, discussionOrder[k].provider)
  /\ \E k \in 2..Len(discussionOrder) :
       /\ discussionOrder[k].id \in dropped
       /\ discussionOrder[k].id \in providerCalls

\* C11: when the discussion of a valid participant set is over and the
\* synthesizer was called without a message of it coming back, the
\* conversation is completed, discussionCompleted was emitted, no
\* discussionError was emitted and the transcript holds no synthesizer
\* message.  A synthesizer bound to gemini is asked in Stage 1, where its
\* failure aborts the discussion.
C11_SynthesizerFailureTolerated ==
  \A k \in DOMAIN discussionOrder :
    (/\ pc = "Done"
     /\ ValidRoleSet
     /\ discussionOrder[k].role = predefinedRoles["synthesizer"]
     /\ discussionOrder[k].id \in providerCalls
     /\ ~HasMessage(discussionOrder[k])) =>
      /\ conv.status = "completed"
      /\ EventCount("discussionCompleted") = 1
      /\ EventCount("discussionError") = 0
      /\ MessagesOf(discussionOrder[k]) = 0

\* C17: the provider registry holds a name iff providers.set ran once for it,
\* never twice; every call in flight works on the one instance stored for its
\* name; only names that getAvailableProviders lists are ever stored, and
\* getAvailableProviders lists the names with enabled flag and credential
\* (gemini and claude in the modelled configuration).
C17_Memoized ==
  /\ \A n \in ProviderNames :
       /\ registryWrites[n] <= 1
       /\ n \in providers <=> registryWrites[n] = 1
  /\ pc = "InFlight" =>
       provider = Instance(discussionOrder[idx + 1].provider, 1)
  /\ providers \subseteq getAvailableProviders
  /\ getAvailableProviders = {"gemini", "claude"}

\* C17 witness: a call in flight for a name that an earlier call of another
\* participant had already resolved
C17_Witness ==
  /\ pc = "InFlight"
  /\ idx >= 1
  /\ \E k \in 1..idx :
       /\ discussionOrder[k].provider = discussionOrder[idx + 1].provider
       /\ discussionOrder[k].id \in providerCalls

\* C18: a rejected createProvider call is not followed by the Stage 1 retry
\* wait.  getFirstSpeakerResponse catches the rejection like any other
\* failure and retries.
C18_ResolutionNotRetried ==
  [][(pc = "Resolve" /\ ~resolveOk) => pc' # "S1Wait"]_vars

\* C12: withRetry invokes the operation at most maxAttempts times; a return
\* follows the one invocation that succeeded, which is the last one; a throw
\* on a retryable error happens only at invocation maxAttempts and carries
\* the error of that last attempt.
C12_RetryBudget ==
  /\ invocations <= retryConfig.maxAttempts
  /\ invocations = retryAttempt
  /\ failedAttempts <= invocations
  /\ wpc = "Returned" =>
       /\ invocations = failedAttempts + 1
       /\ wresult.error = NoError
  /\ (wpc = "Threw" /\ shouldRetryError(lastError, retryConfig)) =>
       /\ invocations = retryConfig.maxAttempts
       /\ failedAttempts = retryConfig.maxAttempts
       /\ wresult.error = lastError

\* C12 witness: every attempt of a budget of two or more failed with a
\* retryable error and the last error was thrown
C12_Witness ==
  /\ wpc = "Threw"
  /\ retryConfig.maxAttempts >= 2
  /\ invocations = retryConfig.maxAttempts
  /\ shouldRetryError(lastError, retryConfig)
  /\ wresult.error = lastError

\* C13: an attempt that failed with an error matching no retryable signature
\* ends the call at once: that error is thrown, no delay follows it; the
\* retry delay is only entered on a matching error with attempts left, and a
\* matching error is thrown only when the budget is used up.
C13_FatalImmediately ==
  /\ (failedAttempts > 0 /\ ~shouldRetryError(lastError, retryConfig)) =>
       /\ wpc = "Threw"
       /\ wresult.error = lastError
  /\ wpc = "Threw" =>
       /\ Len(delays) = invocations - 1
       /\ shouldRetryError(lastError, retryConfig) => retryAttempt = retryConfig.maxAttempts
  /\ wpc = "Delay" =>
       /\ shouldRetryError(lastError, retryConfig)
       /\ retryAttempt < retryConfig.maxAttempts
       /\ Len(delays) = invocations

\* C13 witness: an HTTP 401 on the first attempt of a budget of two or more
\* was thrown without any wait
C13_Witness ==
  /\ wpc = "Threw"
  /\ lastError.status = 401
  /\ retryAttempt = 1
  /\ retryConfig.maxAttempts >= 2
  /\ delays = <<>>

\* C14: an attempt that obtained empty or blank text is not thrown to the
\* caller while attempts remain.  The error 'Empty response from ...' matches
\* no retryable signature, so withRetry throws it at once.
C14_EmptyIsRetried ==
  (wpc = "Threw" /\ lastError = EmptyResponseError(WrapperProvider)) =>
    retryAttempt = retryConfig.maxAttempts

\* C15: the text generateResponse returns has a character that is not blank,
\* whichever path produced it.
C15_NeverBlank ==
  wpc = "Returned" =>
    \E i \in DOMAIN wresult.text : wresult.text[i] # " "

\* C15 witness: a text with a leading blank was returned by the
\* non-streaming fallback
C15_Witness ==
  /\ wpc = "Returned"
  /\ requests.nonStream >= 1
  /\ streamError # NoError
  /\ Len(wresult.text) >= 2
  /\ wresult.text[1] = " "

\* C16: every wait withRetry has made is baseDelay.
C16_FixedDelay ==
  \A i \in DOMAIN delays : delays[i] = retryConfig.baseDelay

\* C16 witness: two waits under a configuration with backoffFactor 2 and a
\* maxDelay below baseDelay
C16_Witness ==
  /\ Len(delays) >= 2
  /\ retryConfig.backoffFactor = 2
  /\ retryConfig.maxDelay < retryConfig.baseDelay

\* C19: when the discussion is over, every message of the transcript has a
\* row in the message store and the stored conversation carries the final
\* status.  The orchestrator never calls the persistence collaborator.
C19_TranscriptPersisted ==
  (pc = "Done" /\ startResult = "id") =>
    /\ \A i \in DOMAIN conv.messages : \E r \in dbMessages : r.id = i
    /\ \E c \in dbConversations : c.status = conv.status

\* C20: no message id is stored twice, and after two consecutive saveMessage
\* calls with the same message id, the second of which went through, the
\* store is the store before the two calls with that id's row replaced by
\* the row of the second call.
C20_SaveMessageUpsert ==
  /\ \A id \in MessageIds : Cardinality({r \in dbMessages : r.id = id}) <= 1
  /\ (/\ Len(saveLog) = 2
      /\ saveLog[1].row.id = saveLog[2].row.id
      /\ ~saveLog[2].threw) =>
       /\ dbMessages = {r \in saveLog[1].before : r.id # saveLog[2].row.id}
                         \cup {saveLog[2].row}
       /\ Cardinality({r \in dbMessages : r.id = saveLog[2].row.id}) = 1

\* C20 witness: the same id was saved twice with different content and
\* conversation, both calls went through, and a row of another id is stored
C20_Witness ==
  /\ Len(saveLog) = 2
  /\ saveLog[1].row.id = saveLog[2].row.id
  /\ saveLog[1].row.content # saveLog[2].row.content
  /\ saveLog[1].row.conversation_id # saveLog[2].row.conversation_id
  /\ ~saveLog[1].threw
  /\ ~saveLog[2].threw
  /\ foreignKeys
  /\ \E r \in dbMessages : r.id # saveLog[2].row.id

\* -------------------------------------------- claim vocabulary: call order
\* the participants the specification calls middle: neither the declared
\* first speaker nor the declared synthesizer
IsMiddle(p) ==
  /\ p.role # predefinedRoles["first_speaker"]
  /\ p.role # predefinedRoles["synthesizer"]

\* generateResponse has been invoked for participant p, or could not be
\* because p's provider cannot be resolved
CallStarted(p) ==
  p.id \in providerCalls \/ ~createProviderOk({}, p.provider)

\* C25: while the round waits for the provider call of a middle participant,
\* the provider call of every middle participant has been started.  The loop
\* of runDiscussionRound awaits each participant's response before it builds
\* the next participant's call.
C25_Stage2Dispatch ==
  (/\ pc = "InFlight"
   /\ idx >= 1
   /\ ValidRoleSet
   /\ HasFirstSpeakerRole(firstSpeaker)
   /\ IsMiddle(discussionOrder[idx + 1])) =>
    \A k \in 2..Len(discussionOrder) :
      IsMiddle(discussionOrder[k]) => CallStarted(discussionOrder[k])

\* --------------------------------------- claim vocabulary: provider input
\* getParticipantResponse line 711: conversation.messages.slice(-10)
ContextWindow == 10

\* Array.prototype.slice(-n)
slice(messages, n) ==
  IF Len(messages) <= n THEN messages
  ELSE SubSeq(messages, Len(messages) - n + 1, Len(messages))

\* Array.prototype.find on the messages of role `role`: the first one, as a
\* sequence of length one, or the empty sequence
find(messages, role) ==
  LET HasRole(m) == m.role = role
      found == SelectSeq(messages, HasRole)
  IN IF found = <<>> THEN <<>> ELSE <<Head(found)>>

\* buildContextualPrompt: the messages whose content the prompt embeds, the
\* original question and, for every speaker but the first, the first
\* assistant message of the transcript
buildContextualPrompt(c, isFirstSpeaker) ==
  IF isFirstSpeaker THEN find(c.messages, "user")
  ELSE find(c.messages, "user") \o find(c.messages, "assistant")

\* what the provider call in flight was given: generateResponse(contextMessages,
\* promptToUse)
providerInput ==
  [contextMessages |-> slice(conv.messages, ContextWindow),
   promptToUse |-> buildContextualPrompt(conv, idx = 0)]

\* C26: the input of a middle participant's provider call holds, besides the
\* question, only the first speaker's answer.  The message history handed to
\* the provider is the tail of the transcript, with the answers of the middle
\* participants that spoke earlier.
C26_MiddleInputFixed ==
  (/\ pc = "InFlight"
   /\ idx >= 1
   /\ ValidRoleSet
   /\ HasFirstSpeakerRole(firstSpeaker)
   /\ IsMiddle(discussionOrder[idx + 1])) =>
    /\ providerInput.promptToUse = <<UserMessage, conv.messages[2]>>
    /\ providerInput.contextMessages = <<UserMessage, conv.messages[2]>>

\* C27: when generateResponse has been invoked for a participant that is not
\* the declared first speaker, a message of the declared first speaker (no
\* error placeholder) is in the transcript.  The participant Stage 1 asks is
\* the gemini-bound one, so a gemini-bound critic is called before the
\* first_speaker participant has said anything.
C27_OthersWaitForFirstAnswer ==
  ValidRoleSet =>
    \A k \in DOMAIN discussionOrder :
      (/\ ~HasFirstSpeakerRole(discussionOrder[k])
       /\ discussionOrder[k].id \in providerCalls) =>
        \E l \in DOMAIN discussionOrder :
          /\ HasFirstSpeakerRole(discussionOrder[l])
          /\ HasMessage(discussionOrder[l])

\* the Stage 2 turn of participant p is over: its message was appended or the
\* participant was dropped
TurnSettled(p) == HasMessage(p) \/ p.id \in dropped

\* C28: when generateResponse has been invoked for the declared synthesizer,
\* the turn of every middle participant is over.  The loop follows the
\* declared order, so a synthesizer declared before a middle participant is
\* called before it.
C28_SynthesizerAfterMiddle ==
  (ValidRoleSet /\ HasFirstSpeakerRole(firstSpeaker)) =>
    \A k \in DOMAIN discussionOrder :
      (/\ discussionOrder[k].role = predefinedRoles["synthesizer"]
       /\ discussionOrder[k].id \in providerCalls) =>
        \A l \in DOMAIN discussionOrder :
          IsMiddle(discussionOrder[l]) => TurnSettled(discussionOrder[l])

\* C29: Stage 1 makes at most OuterMaxAttempts attempts, each but the last
\* followed by one firstSpeakerRetry; a step begins a Stage 1 call only by
\* taking the next attempt number; once the Stage 1 speaker's answer is in
\* the transcript (it is the speaker's own message and no error placeholder,
\* and every earlier attempt was reported as a retry) no further attempt is
\* made; the discussion fails only after attempt OuterMaxAttempts, with one
\* retry event per attempt -- whatever the number of wrapper attempts each
\* call used.
C29_OuterAttempts ==
  /\ [](/\ attempt <= OuterMaxAttempts
        /\ EventCount("firstSpeakerRetry") <= attempt
        /\ (pc = "S1Wait" => EventCount("firstSpeakerRetry") = attempt)
        /\ (pc = "Pace" /\ idx = 0) =>
             /\ MessagesOf(firstSpeaker) = 1
             /\ HasMessage(firstSpeaker)
             /\ Len(AssistantMessages) = 1
             /\ EventCount("firstSpeakerRetry") = attempt - 1
        /\ conv.status = "error" =>
             /\ attempt = OuterMaxAttempts
             /\ EventCount("firstSpeakerRetry") = OuterMaxAttempts
             /\ AssistantMessages = <<>>)
  /\ [][(pc # "Resolve" /\ pc' = "Resolve" /\ idx' = 0) => attempt' = attempt + 1]_vars
  /\ [][AssistantMessages # <<>> => attempt' = attempt]_vars

\* C29 witness: the third attempt gave the answer, after two failed attempts
\* of which at least one lost against the response timer
C29_Witness ==
  /\ pc = "Pace"
  /\ idx = 0
  /\ attempt = OuterMaxAttempts
  /\ EventCount("firstSpeakerRetry") = OuterMaxAttempts - 1
  /\ HasMessage(firstSpeaker)
  /\ s1Class = "timeout"

\* C30: every attempt makes one streaming request; the non-streaming request
\* is made exactly by the step in which the streaming path of the running
\* attempt fails while the stream fallback is enabled (never without the
\* fallback, never after a streaming path that gave text, blank or not); a
\* non-streaming call that gives usable text makes generateResponse return
\* in the same attempt: no attempt, invocation or failure is counted for it.
C30_FallbackSameAttempt ==
  /\ [](/\ requests.stream = invocations
        /\ requests.nonStream <= requests.stream
        /\ (~streamFallback => requests.nonStream = 0)
        /\ (wpc = "NonStream" => streamFallback /\ streamError # NoError))
  /\ [][requests'.nonStream # requests.nonStream =>
          /\ wpc = "Stream"
          /\ streamFallback
          /\ streamError' # NoError
          /\ wpc' = "NonStream"
          /\ requests'.nonStream = requests.nonStream + 1]_vars
  /\ [][(wpc = "Stream" /\ streamError' # NoError /\ streamFallback) =>
          /\ wpc' = "NonStream"
          /\ requests'.nonStream = requests.nonStream + 1
          /\ failedAttempts' = failedAttempts]_vars
  /\ [][(wpc = "NonStream" /\ wpc' = "Returned") =>
          /\ retryAttempt' = retryAttempt
          /\ invocations' = invocations
          /\ failedAttempts' = failedAttempts
          /\ ~isBlank(wresult'.text)]_vars

\* C30 witness: the first attempt's streaming path failed, its non-streaming
\* call gave the text that was returned, and no attempt of a budget of two or
\* more was used for it
C30_Witness ==
  /\ wpc = "Returned"
  /\ streamError # NoError
  /\ requests = [stream |-> 1, nonStream |-> 1]
  /\ retryAttempt = 1
  /\ failedAttempts = 0
  /\ delays = <<>>
  /\ retryConfig.maxAttempts >= 2

\* C22: a discussion that has started reaches status completed or error,
\* also when provider calls never settle: timers fire and the continuations
\* of settled promises run, nothing else is assumed.
C22_Terminates ==
  (startResult = "id") ~> (conv.status \in {"completed", "error"})

\* C22 witness: the discussion completed although a Stage 1 call lost against
\* the response timer and a later participant's turn ended without a message
C22_Witness ==
  /\ pc = "Done"
  /\ conv.status = "completed"
  /\ s1Class = "timeout"
  /\ dropped # {}

\* ------------------------------------------------ claim vocabulary: manager
\* sequence a is an initial part of sequence b
IsPrefix(a, b) == Len(a) <= Len(b) /\ SubSeq(b, 1, Len(a)) = a

\* the places (client id, conversation id) at which a conversation is held
Places == {<<c, k>> : c \in DOMAIN activeConversations, k \in ConversationIds}
Held == {l \in Places : l[2] \in DOMAIN activeConversations[l[1]]}

\* events of type `type` emitted for conversation k
EmittedCount(k, type) ==
  Cardinality({i \in DOMAIN emitted[k] : emitted[k][i].type = type})

\* C21: every step (a stage of the round, addMessage, updateParticipant,
\* stopDiscussion, whoever calls them and whether they find the conversation)
\* keeps every conversation where it is held and leaves its messages as an
\* initial part of its messages after the step.
C21_AppendOnly ==
  [][\A l \in Held :
       /\ l[1] \in DOMAIN activeConversations'
       /\ l[2] \in DOMAIN activeConversations'[l[1]]
       /\ IsPrefix(activeConversations[l[1]][l[2]].messages,
                   activeConversations'[l[1]][l[2]].messages)]_vars

\* C21 witness: a completed conversation whose transcript has a message added
\* by addMessage between the answers of two participants, on which
\* stopDiscussion was called as well
C21_Witness ==
  \E l \in Held :
    LET c == activeConversations[l[1]][l[2]] IN
    /\ c.status = "completed"
    /\ Len(c.messages) = 4
    /\ c.messages[2].participantId # NoParticipantId
    /\ c.messages[3].participantId = NoParticipantId
    /\ c.messages[4].participantId # NoParticipantId
    /\ EmittedCount(l[2], "discussionStopped") = 1

\* the assistant messages of the conversation held at place l
Answers(l) ==
  LET c == activeConversations[l[1]][l[2]] IN
  {i \in DOMAIN c.messages : c.messages[i].participantId # NoParticipantId}

\* C23: discussions running concurrently do not interfere. Every conversation
\* is held under the client id that started it; every message carrying a
\* participant id sits in the conversation that participant belongs to; and
\* what getConversation / getAllConversations returned to a client are
\* conversations started under that client id, held under that client id.
C23_Isolated ==
  /\ \A l \in Held :
       LET c == activeConversations[l[1]][l[2]] IN
       /\ chains[l[2]].clientId = l[1]
       /\ \A i \in Answers(l) :
            /\ c.messages[i].participantId[1] = l[2]
            /\ \E n \in DOMAIN c.participants :
                 c.participants[n].id = c.messages[i].participantId
  /\ lastCall.op \in {"getConversation", "getAllConversations"} =>
       \A l \in lastCall.returned :
         /\ l \in Held
         /\ l[1] = lastCall.clientId
         /\ chains[l[2]].clientId = lastCall.clientId

\* C23 witness: two clients each hold a conversation with an answer of one of
\* its participants, both discussions still running, and the last call was a
\* getConversation of one client asking for the conversation of the other
C23_Witness ==
  \E l \in Held, m \in Held :
    /\ l[1] # m[1]
    /\ Answers(l) # {} /\ Answers(m) # {}
    /\ activeConversations[l[1]][l[2]].status = "active"
    /\ activeConversations[m[1]][m[2]].status = "active"
    /\ chains[l[2]].pc # "None" /\ chains[m[2]].pc # "None"
    /\ lastCall.op = "getConversation"
    /\ lastCall.clientId = l[1]
    /\ lastCall.conversationId = m[2]
    /\ lastCall.returned = {}
    /\ ~lastCall.ok

\* the step is a completed call of stopDiscussion
StopStep == lastCall'.op = "stopDiscussion" /\ apiCalls' = apiCalls + 1

\* conversation k has been started and has ended
Ended(k) ==
  /\ chains[k].pc # "None"
  /\ conversationOf(k).status \in {"completed", "error"}

\* C24: stopDiscussion cancels nothing. A call of stopDiscussion leaves every
\* conversation (messages, participants, status) and every running chain as
\* it was; it returns true exactly when the caller holds a conversation with
\* that id, then emitting discussionStopped and nothing else, and otherwise
\* emits no event. A discussion on which stopDiscussion was called still
\* reaches completed or error.
C24_StopCancelsNothing ==
  /\ [][StopStep =>
          LET l == <<lastCall'.clientId, lastCall'.conversationId>> IN
          /\ \A h \in Held :
               /\ h[1] \in DOMAIN activeConversations'
               /\ h[2] \in DOMAIN activeConversations'[h[1]]
               /\ activeConversations'[h[1]][h[2]] = activeConversations[h[1]][h[2]]
          /\ chains' = chains
          /\ lastCall'.ok <=> l \in Held
          /\ emitted' = IF l \in Held
                        THEN [emitted EXCEPT ![l[2]] = Append(@, Ev("discussionStopped", 0))]
                        ELSE emitted]_vars
  /\ \A k \in ConversationIds :
       (EmittedCount(k, "discussionStopped") > 0) ~> Ended(k)

\* C24 witness: stopDiscussion was called on a running discussion before one
\* of its participants answered, the discussion completed, and the last call
\* was a stopDiscussion that found no conversation and returned false
C24_Witness ==
  \E k \in ConversationIds :
    /\ Ended(k)
    /\ conversationOf(k).status = "completed"
    /\ \E i, j \in DOMAIN emitted[k] :
         /\ i < j
         /\ emitted[k][i].type = "discussionStopped"
         /\ emitted[k][j].type = "messageReceived"
    /\ lastCall.op = "stopDiscussion"
    /\ ~lastCall.ok

\* C31: one call of generateResponse makes at most 2 x maxAttempts network
\* calls: every attempt makes one streaming call and at most one
\* non-streaming call, and there are at most maxAttempts attempts.
C31_NetworkCallBound ==
  /\ retryAttempt <= retryConfig.maxAttempts
  /\ requests.stream = retryAttempt
  /\ requests.nonStream <= retryAttempt
  /\ requests.stream + requests.nonStream <= 2 * retryConfig.maxAttempts

\* C31 witness: the worst case. With a budget of two or more attempts, every
\* attempt made its streaming and its non-streaming call and failed, and
\* generateResponse threw after exactly 2 x maxAttempts network calls
C31_Witness ==
  /\ wpc = "Threw"
  /\ retryConfig.maxAttempts >= 2
  /\ requests.stream = retryConfig.maxAttempts
  /\ requests.nonStream = retryConfig.maxAttempts
  /\ requests.stream + requests.nonStream = 2 * retryConfig.maxAttempts

\* number of terminal events emitted
TerminalEvents == EventCount("discussionCompleted") + EventCount("discussionError")

\* C32: a started discussion gets exactly one terminal event. While the
\* conversation is active none has been emitted; a completed conversation
\* has one discussionCompleted and no discussionError, a failed one has one
\* discussionError and no discussionCompleted; a status of completed or
\* error never changes again; and every started discussion reaches the
\* state with its one terminal event.
C32_OneTerminalEvent ==
  /\ [](/\ TerminalEvents <= 1
        /\ conv.status \in {"none", "active"} => TerminalEvents = 0
        /\ conv.status = "completed" =>
             EventCount("discussionCompleted") = 1 /\ EventCount("discussionError") = 0
        /\ conv.status = "error" =>
             EventCount("discussionError") = 1 /\ EventCount("discussionCompleted") = 0)
  /\ [][conv.status \in {"completed", "error"} => conv'.status = conv.status]_vars
  /\ (startResult = "id") ~> (TerminalEvents = 1)

\* C32 witness: a discussion that failed in Stage 1 after retries, with its
\* one discussionError as the last event
C32_Witness ==
  /\ startResult = "id"
  /\ conv.status = "error"
  /\ EventCount("firstSpeakerRetry") >= 2
  /\ events[Len(events)].type = "discussionError"
  /\ TerminalEvents = 1

\* ---------------------------------------- claim vocabulary: abandoned calls
\* generateResponse calls made for participant p that have not settled: the
\* one the discussion awaits and the abandoned ones
CallsInFlight(p) ==
  (IF pc = "InFlight" /\ discussionOrder[idx + 1].id = p.id THEN 1 ELSE 0)
    + Cardinality({o \in orphans : o.id = p.id /\ ~o.arrived})

\* C33: at any moment at most one generateResponse call is in flight for the
\* participant with the first speaker role.  The code abandons a call that
\* lost against the response timer without cancelling it, and starts the
\* next Stage 1 attempt 3 s later.
C33_OneCallInFlight ==
  \A n \in DOMAIN conv.participants :
    HasFirstSpeakerRole(conv.participants[n]) => CallsInFlight(conv.participants[n]) <= 1

\* C34: a provider result arriving after the response timer of its call has
\* fired is not used. The step in which an abandoned call settles changes
\* neither the transcript nor the events; a Stage 2 participant whose call
\* lost the race has no message and no messageReceived event, whether the
\* result arrived later or not; and a message of the Stage 1 speaker comes
\* from a later attempt than every attempt that lost the race.
C34_LateResultIgnored ==
  /\ [](\A o \in orphans :
          LET p == discussionOrder[o.turn + 1] IN
          /\ o.turn > 0 =>
               /\ MessagesOf(p) = 0
               /\ \A i \in DOMAIN events :
                    ~(events[i].type = "messageReceived" /\ events[i].n = o.turn)
          /\ o.turn = 0 =>
               /\ MessagesOf(p) <= 1
               /\ MessagesOf(p) = 1 => o.attempt < attempt)
  /\ [][(\E o \in orphans : ~o.arrived /\ [o EXCEPT !.arrived = TRUE] \in orphans') =>
          conv' = conv /\ events' = events]_vars

\* C34 witness: a completed conversation in which a Stage 1 attempt and a
\* Stage 2 call lost the race, both results arrived later, and the transcript
\* holds the message of the later Stage 1 attempt only
C34_Witness ==
  /\ conv.status = "completed"
  /\ \E o1, o2 \in orphans :
       /\ o1.turn = 0 /\ o1.arrived
       /\ o2.turn > 0 /\ o2.arrived
       /\ MessagesOf(discussionOrder[1]) = 1
       /\ MessagesOf(discussionOrder[o2.turn + 1]) = 0
  /\ Len(conv.messages) = 2

\* C35: in any conversation each participant has at most one assistant
\* message, whatever the Stage 1 attempts and the wrapper's retries were.
C35_OneMessageEach ==
  \A n \in DOMAIN conv.participants : MessagesOf(conv.participants[n]) <= 1

\* C35 witness: a completed conversation of three participants, each with
\* exactly one message, whose Stage 1 took a second attempt after wrapper
\* attempts that failed
C35_Witness ==
  /\ conv.status = "completed"
  /\ Len(conv.participants) = 3
  /\ Len(discussionOrder) = 3
  /\ \A n \in DOMAIN conv.participants : MessagesOf(conv.participants[n]) = 1
  /\ attempt >= 2
  /\ EventCount("firstSpeakerRetry") >= 1

\* C36: the speakers of a discussion and their provider bindings are fixed
\* when the round starts. No step, updateParticipant included, changes the
\* discussionOrder of a started round or moves its loop backwards; every
\* answer in the transcript is by a participant of that order, reached by
\* the loop, and carries the provider the order binds it to, whatever the
\* participants list of the conversation says by then.
C36_SpeakersFixed ==
  /\ [][\A k \in ConversationIds :
          chains[k].pc # "None" =>
            /\ chains'[k].discussionOrder = chains[k].discussionOrder
            /\ chains'[k].idx >= chains[k].idx]_vars
  /\ [](\A l \in Held :
          LET c == activeConversations[l[1]][l[2]]
              ch == chains[l[2]]
          IN \A i \in Answers(l) :
               \E n \in DOMAIN ch.discussionOrder :
                 /\ ch.discussionOrder[n].id = c.messages[i].participantId
                 /\ ch.discussionOrder[n].provider = c.messages[i].model
                 /\ n <= ch.idx + 1)

\* C36 witness: while the first speaker's turn was running, the second
\* participant was set inactive and rebound to another provider; its call is
\* now in flight all the same, with the provider it was started with
C36_Witness ==
  \E l \in Held :
    LET c == activeConversations[l[1]][l[2]]
        ch == chains[l[2]]
    IN /\ ch.pc = "InFlight"
       /\ ch.idx = 1
       /\ \E n \in DOMAIN c.participants :
            /\ c.participants[n].id = ch.discussionOrder[2].id
            /\ ~c.participants[n].isActive
            /\ c.participants[n].provider = "grok"
            /\ ch.discussionOrder[2].isActive
            /\ ch.discussionOrder[2].provider = "claude"
       /\ lastCall.op = "updateParticipant"
       /\ lastCall.ok

\* ------------------------------------------------ claim vocabulary: events
\* the lifecycle events of conversation k: those the discussion itself emits
Lifecycle(k) ==
  LET IsLifecycle(e) == e.type \in {"discussionStarted", "roundStarted", "messageReceived",
                                    "firstSpeakerRetry", "discussionCompleted",
                                    "discussionError"}
  IN SelectSeq(emitted[k], IsLifecycle)

IsTerminal(e) == e.type \in {"discussionCompleted", "discussionError"}

\* discussionStarted, then roundStarted, then the messageReceived events, one
\* for each message the discussion appended and in transcript order
EventsInOrder(k) ==
  LET ev == Lifecycle(k)
      IsReceived(e) == e.type = "messageReceived"
      ByParticipant(m) == m.participantId # NoParticipantId
      received == SelectSeq(ev, IsReceived)
      appended == SelectSeq(conversationOf(k).messages, ByParticipant)
  IN /\ Len(ev) >= 2
     /\ ev[1].type = "discussionStarted"
     /\ ev[2].type = "roundStarted"
     /\ \A i \in 3..Len(ev) : ev[i].type \notin {"discussionStarted", "roundStarted"}
     /\ Len(received) = Len(appended)
     /\ \A i \in DOMAIN received :
          chains[k].discussionOrder[received[i].n + 1].id = appended[i].participantId

\* C37 as stated: the events of each discussion come in the order
\* discussionStarted, roundStarted, messageReceived (one for each appended
\* message, in transcript order), terminal event, and no event at all is
\* emitted for the conversation after its terminal event.  addMessage and
\* stopDiscussion emit for a conversation that has ended.
C37_NoEventAfterTerminal ==
  \A k \in ConversationIds :
    chains[k].pc # "None" =>
      /\ EventsInOrder(k)
      /\ \A i \in DOMAIN emitted[k] : IsTerminal(emitted[k][i]) => i = Len(emitted[k])

\* C37 amended: the same order, and no lifecycle event (discussionStarted,
\* roundStarted, messageReceived, firstSpeakerRetry, discussionCompleted,
\* discussionError) is emitted for the conversation after its terminal event.
C37_EventOrder ==
  \A k \in ConversationIds :
    chains[k].pc # "None" =>
      /\ EventsInOrder(k)
      /\ \A i \in DOMAIN Lifecycle(k) :
           IsTerminal(Lifecycle(k)[i]) => i = Len(Lifecycle(k))

\* C37 witness: a completed discussion with two announced messages, whose
\* last lifecycle event is discussionCompleted and whose last event is the
\* messageAdded of an addMessage call made after it
C37_Witness ==
  \E k \in ConversationIds :
    /\ chains[k].pc = "Done"
    /\ conversationOf(k).status = "completed"
    /\ EmittedCount(k, "messageReceived") = 2
    /\ Lifecycle(k)[Len(Lifecycle(k))].type = "discussionCompleted"
    /\ emitted[k][Len(emitted[k])].type = "messageAdded"
    /\ emitted[k][Len(emitted[k]) - 1].type = "discussionCompleted"

\* ----------------------------------------------- claim vocabulary: storage
\* DatabaseManager.getMessages: the stored messages of a conversation, which
\* getConversation returns with the conversation's row
getMessages(table, conversationId) == {m \in table : m.conversation_id = conversationId}

\* C38: saving a conversation again under an id that is already stored keeps
\* the messages saved for it: a saveConversation step on a stored
\* conversation leaves every message getConversation returned for it in
\* place.  INSERT OR REPLACE deletes the stored row first, and where foreign
\* keys are enforced the delete cascades to the conversation's messages.
C38_ResaveKeepsMessages ==
  [][\A k \in ConversationIds :
       (/\ saveLog' = <<>>
        /\ \E c \in dbConversations : c.id = k
        /\ \E c \in dbConversations' : c.id = k) =>
         getMessages(dbMessages, k) \subseteq getMessages(dbMessages', k)]_vars

====
